---- MODULE Spec2Model ----
(***************************************************************************)
(* Model of gen_traps.py: the generator of the 256 x86-64 trap entry       *)
(* trampolines and of the trap_table that lists their addresses.           *)
(*                                                                         *)
(* An emitted line is a tuple of tokens: <<".global", "debug">>,           *)
(* <<"debug", ":">>, <<"\t", "pushq", "$1">>, <<"\t", "jmp", "handleTrap">>,*)
(* <<"\t", ".quad", "debug">>, and <<>> for an empty line.  stdout is the  *)
(* sequence of the lines printed so far.                                   *)
(***************************************************************************)
EXTENDS Integers, Sequences, FiniteSets

VARIABLES pc, it, i, name, has_err_code, TRAPS, out, env, run, prev, prev_env

vars == <<pc, it, i, name, has_err_code, TRAPS, out, env, run, prev, prev_env>>

(* Number of processes started one after the other. *)
MaxRuns == 2

(* What a process can be started with: arguments / environment. *)
Environments == {"plain", "altered"}

(* First and one-past-last synthesized vector: range(32, 256). *)
FirstVector == 32
NumVectors == 256

(* A local of main() that has not been assigned yet. *)
UnboundInt == -1
UnboundStr == ""

(* alignment_check (17) entered without its error code. *)
TRAPS_TABLE_Misflagged ==
    << <<"division_error", FALSE>>,
       <<"debug", FALSE>>,
       <<"nmi", FALSE>>,
       <<"breakpoint", FALSE>>,
       <<"overflow", FALSE>>,
       <<"bound_range_exceeded", FALSE>>,
       <<"invalid_opcode", FALSE>>,
       <<"device_not_available", FALSE>>,
       <<"double_fault", TRUE>>,
       <<"coprocessor_segment_overrun", FALSE>>,
       <<"invalid_tss", TRUE>>,
       <<"segment_not_present", TRUE>>,
       <<"stack_segment_fault", TRUE>>,
       <<"general_protection_fault", TRUE>>,
       <<"page_fault", TRUE>>,
       <<"reserved15", FALSE>>,
       <<"x87_fp_exception", FALSE>>,
       <<"alignment_check", FALSE>>,
       <<"machine_check", FALSE>>,
       <<"simd_fp_exception", FALSE>>,
       <<"virtualization_exception", FALSE>>,
       <<"control_protection_exception", TRUE>>,
       <<"reserved22", FALSE>>,
       <<"reserved23", FALSE>>,
       <<"reserved24", FALSE>>,
       <<"reserved25", FALSE>>,
       <<"reserved26", FALSE>>,
       <<"reserved27", FALSE>>,
       <<"hypervisor_injection", FALSE>>,
       <<"vmm_communication_exception", TRUE>>,
       <<"security_exception", TRUE>>,
       <<"reserved31", FALSE>> >>

(* The reserved vector 15 left out of the list. *)
TRAPS_TABLE_Omitted ==
    << <<"division_error", FALSE>>,
       <<"debug", FALSE>>,
       <<"nmi", FALSE>>,
       <<"breakpoint", FALSE>>,
       <<"overflow", FALSE>>,
       <<"bound_range_exceeded", FALSE>>,
       <<"invalid_opcode", FALSE>>,
       <<"device_not_available", FALSE>>,
       <<"double_fault", TRUE>>,
       <<"coprocessor_segment_overrun", FALSE>>,
       <<"invalid_tss", TRUE>>,
       <<"segment_not_present", TRUE>>,
       <<"stack_segment_fault", TRUE>>,
       <<"general_protection_fault", TRUE>>,
       <<"page_fault", TRUE>>,
       <<"x87_fp_exception", FALSE>>,
       <<"alignment_check", TRUE>>,
       <<"machine_check", FALSE>>,
       <<"simd_fp_exception", FALSE>>,
       <<"virtualization_exception", FALSE>>,
       <<"control_protection_exception", TRUE>>,
       <<"reserved22", FALSE>>,
       <<"reserved23", FALSE>>,
       <<"reserved24", FALSE>>,
       <<"reserved25", FALSE>>,
       <<"reserved26", FALSE>>,
       <<"reserved27", FALSE>>,
       <<"hypervisor_injection", FALSE>>,
       <<"vmm_communication_exception", TRUE>>,
       <<"security_exception", TRUE>>,
       <<"reserved31", FALSE>> >>

TRAPS_TABLE ==
    << <<"division_error", FALSE>>,
       <<"debug", FALSE>>,
       <<"nmi", FALSE>>,
       <<"breakpoint", FALSE>>,
       <<"overflow", FALSE>>,
       <<"bound_range_exceeded", FALSE>>,
       <<"invalid_opcode", FALSE>>,
       <<"device_not_available", FALSE>>,
       <<"double_fault", TRUE>>,
       <<"coprocessor_segment_overrun", FALSE>>,
       <<"invalid_tss", TRUE>>,
       <<"segment_not_present", TRUE>>,
       <<"stack_segment_fault", TRUE>>,
       <<"general_protection_fault", TRUE>>,
       <<"page_fault", TRUE>>,
       <<"reserved15", FALSE>>,
       <<"x87_fp_exception", FALSE>>,
       <<"alignment_check", TRUE>>,
       <<"machine_check", FALSE>>,
       <<"simd_fp_exception", FALSE>>,
       <<"virtualization_exception", FALSE>>,
       <<"control_protection_exception", TRUE>>,
       <<"reserved22", FALSE>>,
       <<"reserved23", FALSE>>,
       <<"reserved24", FALSE>>,
       <<"reserved25", FALSE>>,
       <<"reserved26", FALSE>>,
       <<"reserved27", FALSE>>,
       <<"hypervisor_injection", FALSE>>,
       <<"vmm_communication_exception", TRUE>>,
       <<"security_exception", TRUE>>,
       <<"reserved31", FALSE>> >>

(***************************************************************************)
(* Formatting, as the f-strings do it.                                     *)
(***************************************************************************)
DigitStr == <<"0", "1", "2", "3", "4", "5", "6", "7", "8", "9">>

(* str(n) for n >= 0: the decimal digits, most significant first. *)
RECURSIVE Dec(_)
Dec(n) == IF n < 10 THEN DigitStr[n + 1]
          ELSE Dec(n \div 10) \o DigitStr[(n % 10) + 1]

(* f"${i}" *)
Imm(n) == "$" \o Dec(n)

(* "vector{i}" without the f prefix: nothing is substituted. *)
VectorName_NoFormat(n) == "vector{i}"

(* f"vector{i}" *)
VectorName(n) == "vector" \o Dec(n)

(* print(...): the lines a call appends to stdout. *)
print(lines) == out' = out \o lines

(***************************************************************************)
(* main(), one action per statement.                                       *)
(***************************************************************************)
Init ==
    /\ pc = "L37"
    /\ it = 0
    /\ i = UnboundInt
    /\ name = UnboundStr
    /\ has_err_code = FALSE
    /\ TRAPS = TRAPS_TABLE
    /\ out = <<>>
    /\ env \in Environments
    /\ run = 1
    /\ prev = <<>>
    /\ prev_env = env

(* line 37 *)
PrintTextSection ==
    /\ pc = "L37"
    /\ print(<< <<".section", ".text">> >>)
    /\ pc' = "L38"
    /\ UNCHANGED <<it, i, name, has_err_code, TRAPS, env, run, prev, prev_env>>

(* line 38 *)
PrintExtern ==
    /\ pc = "L38"
    /\ print(<< <<".extern", "handleTrap">> >>)
    /\ pc' = "L39"
    /\ it' = 0
    /\ UNCHANGED <<i, name, has_err_code, TRAPS, env, run, prev, prev_env>>

(* TRAPS kept in a hash-ordered container: the order of iteration follows *)
(* the hash seed the process is started with.                            *)
ForTraps_EnvOrdered ==
    /\ pc = "L39"
    /\ IF it < Len(TRAPS)
       THEN /\ i' = it
            /\ name' = TRAPS[IF env = "altered" THEN Len(TRAPS) - it ELSE it + 1][1]
            /\ has_err_code' =
                   TRAPS[IF env = "altered" THEN Len(TRAPS) - it ELSE it + 1][2]
            /\ it' = it + 1
            /\ pc' = "L40"
       ELSE /\ it' = FirstVector
            /\ pc' = "L47"
            /\ UNCHANGED <<i, name, has_err_code>>
    /\ UNCHANGED <<TRAPS, out, env, run, prev, prev_env>>

(* line 39: enumerate(TRAPS) yields the next (i, (name, has_err_code)),   *)
(* or the loop ends and range(32, 256) is set up.                          *)
ForTraps ==
    /\ pc = "L39"
    /\ IF it < Len(TRAPS)
       THEN /\ i' = it
            /\ name' = TRAPS[it + 1][1]
            /\ has_err_code' = TRAPS[it + 1][2]
            /\ it' = it + 1
            /\ pc' = "L40"
       ELSE /\ it' = FirstVector
            /\ pc' = "L47"
            /\ UNCHANGED <<i, name, has_err_code>>
    /\ UNCHANGED <<TRAPS, out, env, run, prev, prev_env>>

(* line 40 *)
TrapGlobal ==
    /\ pc = "L40"
    /\ print(<< <<".global", name>> >>)
    /\ pc' = "L41"
    /\ UNCHANGED <<it, i, name, has_err_code, TRAPS, env, run, prev, prev_env>>

(* line 41 *)
TrapLabel ==
    /\ pc = "L41"
    /\ print(<< <<name, ":">> >>)
    /\ pc' = "L42"
    /\ UNCHANGED <<it, i, name, has_err_code, TRAPS, env, run, prev, prev_env>>

(* The padding push emitted for every vector. *)
TrapPad_Always ==
    /\ pc = "L42"
    /\ print(<< <<"\t", "pushq", "$0">> >>)
    /\ pc' = "L44"
    /\ UNCHANGED <<it, i, name, has_err_code, TRAPS, env, run, prev, prev_env>>

(* The test without its "not". *)
TrapPad_Inverted ==
    /\ pc = "L42"
    /\ IF has_err_code
       THEN print(<< <<"\t", "pushq", "$0">> >>)
       ELSE UNCHANGED out
    /\ pc' = "L44"
    /\ UNCHANGED <<it, i, name, has_err_code, TRAPS, env, run, prev, prev_env>>

(* lines 42-43 *)
TrapPad ==
    /\ pc = "L42"
    /\ IF ~has_err_code
       THEN print(<< <<"\t", "pushq", "$0">> >>)
       ELSE UNCHANGED out
    /\ pc' = "L44"
    /\ UNCHANGED <<it, i, name, has_err_code, TRAPS, env, run, prev, prev_env>>

(* line 44 *)
TrapPushIndex ==
    /\ pc = "L44"
    /\ print(<< <<"\t", "pushq", Imm(i)>> >>)
    /\ pc' = "L45"
    /\ UNCHANGED <<it, i, name, has_err_code, TRAPS, env, run, prev, prev_env>>

(* line 45: the text ends in "\n", so an empty line follows the jmp. *)
TrapJmp ==
    /\ pc = "L45"
    /\ print(<< <<"\t", "jmp", "handleTrap">>, <<>> >>)
    /\ pc' = "L39"
    /\ UNCHANGED <<it, i, name, has_err_code, TRAPS, env, run, prev, prev_env>>

(* line 47: range(32, 256) yields the next i, or the loop ends. *)
ForVectors ==
    /\ pc = "L47"
    /\ IF it < NumVectors
       THEN /\ i' = it
            /\ it' = it + 1
            /\ pc' = "L48"
       ELSE /\ pc' = "L54"
            /\ UNCHANGED <<i, it>>
    /\ UNCHANGED <<name, has_err_code, TRAPS, out, env, run, prev, prev_env>>

(* line 48 *)
VectorGlobal ==
    /\ pc = "L48"
    /\ print(<< <<".global", VectorName(i)>> >>)
    /\ pc' = "L49"
    /\ UNCHANGED <<it, i, name, has_err_code, TRAPS, env, run, prev, prev_env>>

(* line 49 *)
VectorLabel ==
    /\ pc = "L49"
    /\ print(<< <<VectorName(i), ":">> >>)
    /\ pc' = "L50"
    /\ UNCHANGED <<it, i, name, has_err_code, TRAPS, env, run, prev, prev_env>>

(* line 50 *)
VectorPad ==
    /\ pc = "L50"
    /\ print(<< <<"\t", "push", "$0">> >>)
    /\ pc' = "L51"
    /\ UNCHANGED <<it, i, name, has_err_code, TRAPS, env, run, prev, prev_env>>

(* line 51 *)
VectorPushIndex ==
    /\ pc = "L51"
    /\ print(<< <<"\t", "push", Imm(i)>> >>)
    /\ pc' = "L52"
    /\ UNCHANGED <<it, i, name, has_err_code, TRAPS, env, run, prev, prev_env>>

(* A call in place of the jmp. *)
VectorJmp_Call ==
    /\ pc = "L52"
    /\ print(<< <<"\t", "call", "handleTrap">>, <<>> >>)
    /\ pc' = "L47"
    /\ UNCHANGED <<it, i, name, has_err_code, TRAPS, env, run, prev, prev_env>>

(* line 52 *)
VectorJmp ==
    /\ pc = "L52"
    /\ print(<< <<"\t", "jmp", "handleTrap">>, <<>> >>)
    /\ pc' = "L47"
    /\ UNCHANGED <<it, i, name, has_err_code, TRAPS, env, run, prev, prev_env>>

(* line 54 *)
PrintDataSection ==
    /\ pc = "L54"
    /\ print(<< <<".section", ".data">> >>)
    /\ pc' = "L55"
    /\ UNCHANGED <<it, i, name, has_err_code, TRAPS, env, run, prev, prev_env>>

(* line 55 *)
PrintTableGlobal ==
    /\ pc = "L55"
    /\ print(<< <<".global", "trap_table">> >>)
    /\ pc' = "L56"
    /\ UNCHANGED <<it, i, name, has_err_code, TRAPS, env, run, prev, prev_env>>

(* line 56 *)
PrintTableLabel ==
    /\ pc = "L56"
    /\ print(<< <<"trap_table", ":">> >>)
    /\ pc' = "L57"
    /\ it' = 0
    /\ UNCHANGED <<i, name, has_err_code, TRAPS, env, run, prev, prev_env>>

(* The table loop written as "while TRAPS: name, _ = TRAPS.pop(0)". *)
ForTableTraps_Pop ==
    /\ pc = "L57"
    /\ IF Len(TRAPS) > 0
       THEN /\ name' = Head(TRAPS)[1]
            /\ TRAPS' = Tail(TRAPS)
            /\ it' = it + 1
            /\ pc' = "L58"
       ELSE /\ it' = FirstVector
            /\ pc' = "L59"
            /\ UNCHANGED <<name, TRAPS>>
    /\ UNCHANGED <<i, has_err_code, out, env, run, prev, prev_env>>

(* line 57: the list iterator yields the next (name, _), or the loop ends *)
(* and range(32, 256) is set up.                                           *)
ForTableTraps ==
    /\ pc = "L57"
    /\ IF it < Len(TRAPS)
       THEN /\ name' = TRAPS[it + 1][1]
            /\ it' = it + 1
            /\ pc' = "L58"
       ELSE /\ it' = FirstVector
            /\ pc' = "L59"
            /\ UNCHANGED name
    /\ UNCHANGED <<i, has_err_code, TRAPS, out, env, run, prev, prev_env>>

(* line 58 *)
QuadTrap ==
    /\ pc = "L58"
    /\ print(<< <<"\t", ".quad", name>> >>)
    /\ pc' = "L57"
    /\ UNCHANGED <<it, i, name, has_err_code, TRAPS, env, run, prev, prev_env>>

(* line 59: range(32, 256) yields the next i, or main() returns. *)
ForTableVectors ==
    /\ pc = "L59"
    /\ IF it < NumVectors
       THEN /\ i' = it
            /\ it' = it + 1
            /\ pc' = "L60"
       ELSE /\ pc' = "done"
            /\ UNCHANGED <<i, it>>
    /\ UNCHANGED <<name, has_err_code, TRAPS, out, env, run, prev, prev_env>>

(* The table entry names the next vector's stub. *)
QuadVector_OffByOne ==
    /\ pc = "L60"
    /\ print(<< <<"\t", ".quad", VectorName(i + 1)>> >>)
    /\ pc' = "L59"
    /\ UNCHANGED <<it, i, name, has_err_code, TRAPS, env, run, prev, prev_env>>

(* line 60 *)
QuadVector ==
    /\ pc = "L60"
    /\ print(<< <<"\t", ".quad", VectorName(i)>> >>)
    /\ pc' = "L59"
    /\ UNCHANGED <<it, i, name, has_err_code, TRAPS, env, run, prev, prev_env>>

(* lines 63-64: the script is run again, as a new process: the module is  *)
(* loaded afresh, stdout is empty, the environment is whatever the caller  *)
(* passes.  prev and prev_env keep what the finished process wrote and the *)
(* environment it ran in.                                                  *)
RunAgain ==
    /\ pc = "done"
    /\ run < MaxRuns
    /\ run' = run + 1
    /\ prev' = out
    /\ prev_env' = env
    /\ out' = <<>>
    /\ env' \in Environments
    /\ TRAPS' = TRAPS_TABLE
    /\ pc' = "L37"
    /\ it' = 0
    /\ i' = UnboundInt
    /\ name' = UnboundStr
    /\ has_err_code' = FALSE

Next ==
    \/ PrintTextSection
    \/ PrintExtern
    \/ ForTraps
    \/ TrapGlobal
    \/ TrapLabel
    \/ TrapPad
    \/ TrapPushIndex
    \/ TrapJmp
    \/ ForVectors
    \/ VectorGlobal
    \/ VectorLabel
    \/ VectorPad
    \/ VectorPushIndex
    \/ VectorJmp
    \/ PrintDataSection
    \/ PrintTableGlobal
    \/ PrintTableLabel
    \/ ForTableTraps
    \/ QuadTrap
    \/ ForTableVectors
    \/ QuadVector
    \/ RunAgain

Spec == Init /\ [][Next]_vars

(* The interpreter runs main() to its end: a statement that can run does. *)
FairSpec == Spec /\ WF_vars(Next)

(***************************************************************************)
(* Reading the emitted text back, as the assembler does.                   *)
(***************************************************************************)
IsLabel(l) == Len(l) = 2 /\ l[2] = ":"
IsInsn(l) == Len(l) = 3 /\ l[1] = "\t"
IsPush(l) == IsInsn(l) /\ l[2] \in {"push", "pushq"}
IsJmp(l) == IsInsn(l) /\ l[2] = "jmp"
IsQuad(l) == IsInsn(l) /\ l[2] = ".quad"

(* A function on 1..n as an explicit tuple. *)
AsTuple(f) == f \o <<>>

Positions(t) == AsTuple([k \in 1..Len(t) |-> k])

(* Where the .data section starts; past the end when there is none. *)
DataStart(t) ==
    LET ks == SelectSeq(Positions(t), LAMBDA k : t[k] = <<".section", ".data">>)
    IN IF Len(ks) = 0 THEN Len(t) + 1 ELSE ks[1]

(* The lines that are not indented: each ends the body before it. *)
Breaks(t) == SelectSeq(Positions(t), LAMBDA k : ~IsInsn(t[k]))

(* The indented lines that follow the j-th unindented line. *)
BodyAt(t, N, j) ==
    SubSeq(t, N[j] + 1, IF j < Len(N) THEN N[j + 1] - 1 ELSE Len(t))

(* The labels of the .text section with their bodies, in text order. *)
StubSeq(t) ==
    LET d == DataStart(t)
        N == Breaks(t)
        js == SelectSeq(Positions(N), LAMBDA j : N[j] < d /\ IsLabel(t[N[j]]))
    IN AsTuple([s \in 1..Len(js) |->
                  [label |-> t[N[js[s]]][1], body |-> BodyAt(t, N, js[s])]])

(* The names the .quad lines under trap_table: refer to, in order. *)
TableSeq(t) ==
    LET d == DataStart(t)
        N == Breaks(t)
        js == SelectSeq(Positions(N),
                        LAMBDA j : N[j] > d /\ t[N[j]] = <<"trap_table", ":">>)
    IN IF Len(js) = 0 THEN <<>>
       ELSE LET b == BodyAt(t, N, js[1])
            IN AsTuple([q \in 1..Len(b) |-> b[q][3]])

Pushes(body) == SelectSeq(body, IsPush)
Operands(ls) == AsTuple([m \in 1..Len(ls) |-> ls[m][3]])
Mnemonics(ls) == AsTuple([m \in 1..Len(ls) |-> ls[m][2]])

(* A finished stub: its body ends in a jmp. *)
Finished(body) == Len(body) > 0 /\ IsJmp(body[Len(body)])

(* The stub pushes vector index n: its last push has operand $n. *)
PushesIndex(body, n) ==
    LET ps == Pushes(body)
    IN Len(ps) > 0 /\ ps[Len(ps)][3] = Imm(n)

(* The stubs that push index n. *)
StubsOf(S, n) == {s \in 1..Len(S) : PushesIndex(S[s].body, n)}

Vectors == 0..255

(* The vectors for which the CPU itself pushes an error code. *)
HwErrorCodeVectors == {8, 10, 11, 12, 13, 14, 17, 21, 29, 30}

(* has_hw_error_code of vector n as the generator classifies it. *)
Classified(n) == n < Len(TRAPS) /\ TRAPS[n + 1][2]

Done == pc = "done"

TypeOK ==
    /\ pc \in {"L37", "L38", "L39", "L40", "L41", "L42", "L44", "L45", "L47",
               "L48", "L49", "L50", "L51", "L52", "L54", "L55", "L56", "L57",
               "L58", "L59", "L60", "done"}
    /\ it \in 0..NumVectors
    /\ i \in -1..(NumVectors - 1)
    /\ run \in 1..MaxRuns
    /\ env \in Environments

(***************************************************************************)
(* C1: the emitted trap_table has exactly 256 .quad entries, and for every *)
(* i in 0..255 the entry at position i names the label of the stub that    *)
(* pushes vector index i, and of no stub that pushes another index.        *)
(***************************************************************************)
C1_TableNamesStubOfIndex ==
    Done =>
        LET S == StubSeq(out)
            T == TableSeq(out)
        IN /\ Len(T) = 256
           /\ Len(SelectSeq(out, IsQuad)) = 256
           /\ \A n \in Vectors :
                /\ \E s \in 1..Len(S) :
                      S[s].label = T[n + 1] /\ PushesIndex(S[s].body, n)
                /\ \A s \in 1..Len(S) :
                      S[s].label = T[n + 1] =>
                          {m \in Vectors : PushesIndex(S[s].body, m)} = {n}

C1_Witness ==
    /\ Done
    /\ Len(TableSeq(out)) = 256
    /\ TableSeq(out)[201] = "vector200"
    /\ TableSeq(out)[15] = "page_fault"
    /\ \E s \in 1..Len(StubSeq(out)) :
          /\ StubSeq(out)[s].label = "vector200"
          /\ PushesIndex(StubSeq(out)[s].body, 200)

(***************************************************************************)
(* C2: for every index i in 0..255 the stub of i pushes a zero before the  *)
(* index iff has_hw_error_code is false for i: a stub of an index that is  *)
(* classified true has exactly one push (the index), every other stub has  *)
(* exactly two (zero, then the index), and the jmp follows the pushes.     *)
(***************************************************************************)
C2_PaddingIffNoErrorCode ==
    Done =>
        LET S == StubSeq(out)
        IN \A n \in Vectors :
              /\ StubsOf(S, n) # {}
              /\ \A s \in StubsOf(S, n) :
                    LET b == S[s].body
                    IN /\ Operands(Pushes(b)) =
                            (IF Classified(n) THEN <<Imm(n)>>
                                              ELSE <<"$0", Imm(n)>>)
                       /\ Len(b) = Len(Pushes(b)) + 1
                       /\ IsJmp(b[Len(b)])

C2_Witness ==
    /\ Done
    /\ \E s \in 1..Len(StubSeq(out)) :
          /\ StubSeq(out)[s].label = "page_fault"
          /\ Operands(Pushes(StubSeq(out)[s].body)) = <<"$14">>
    /\ \E s \in 1..Len(StubSeq(out)) :
          /\ StubSeq(out)[s].label = "division_error"
          /\ Operands(Pushes(StubSeq(out)[s].body)) = <<"$0", "$0">>
    /\ \E s \in 1..Len(StubSeq(out)) :
          /\ StubSeq(out)[s].label = "vector200"
          /\ Operands(Pushes(StubSeq(out)[s].body)) = <<"$0", "$200">>

(***************************************************************************)
(* C3: for every index i in 0..255 exactly one stub pushes index i, there  *)
(* are 256 stubs, and their entry-point names are pairwise distinct over   *)
(* the whole output: no label is defined twice, table labels and           *)
(* synthesized names included.                                             *)
(***************************************************************************)
C3_OneStubPerIndexUniqueNames ==
    Done =>
        LET S == StubSeq(out)
            L == SelectSeq(out, IsLabel)
        IN /\ Len(S) = 256
           /\ \A n \in Vectors : Cardinality(StubsOf(S, n)) = 1
           /\ \A s \in 1..Len(S) : \E n \in Vectors : PushesIndex(S[s].body, n)
           /\ Cardinality({L[a][1] : a \in 1..Len(L)}) = Len(L)
           /\ Cardinality({S[a].label : a \in 1..Len(S)}) = 256
           /\ \A n \in FirstVector..255 : \A e \in 1..Len(TRAPS) :
                 TRAPS[e][1] # VectorName(n)

C3_Witness ==
    /\ Done
    /\ Len(StubSeq(out)) = 256
    /\ StubSeq(out)[32].label = "reserved31"
    /\ StubSeq(out)[33].label = "vector32"
    /\ StubSeq(out)[256].label = "vector255"

(***************************************************************************)
(* C4: the indices whose flag is true are exactly 8, 10, 11, 12, 13, 14,   *)
(* 17, 21, 29 and 30: TRAPS, read by list position, classifies every other *)
(* index of 0..31 false, and every index of 32..255 is treated as false    *)
(* (its stub gets the padding push).                                       *)
(***************************************************************************)
C4_ErrorCodeSet ==
    /\ {n \in Vectors : Classified(n)} = HwErrorCodeVectors
    /\ {e \in 1..Len(TRAPS) : TRAPS[e][2]} = {n + 1 : n \in HwErrorCodeVectors}
    /\ Done =>
         LET S == StubSeq(out)
         IN {n \in Vectors : \E s \in StubsOf(S, n) : Len(Pushes(S[s].body)) = 1}
              = HwErrorCodeVectors

C4_Witness ==
    /\ Done
    /\ Classified(8) /\ ~Classified(9) /\ Classified(30) /\ ~Classified(31)
    /\ ~Classified(32)
    /\ \E s \in 1..Len(StubSeq(out)) :
          /\ StubSeq(out)[s].label = "double_fault"
          /\ Len(Pushes(StubSeq(out)[s].body)) = 1

(***************************************************************************)
(* C5: every one of the 256 stubs ends with a jmp (never a call) to the    *)
(* one symbol handleTrap, as its last instruction after all pushes;        *)
(* handleTrap is declared .extern exactly once and no label defines it.    *)
(***************************************************************************)
C5_AllJumpToHandleTrap ==
    Done =>
        LET S == StubSeq(out)
        IN /\ Len(S) = 256
           /\ \A s \in 1..Len(S) :
                 LET b == S[s].body
                 IN /\ Len(b) > 0
                    /\ b[Len(b)] = <<"\t", "jmp", "handleTrap">>
                    /\ \A m \in 1..(Len(b) - 1) : IsPush(b[m])
           /\ \A k \in 1..Len(out) :
                 Len(out[k]) = 3 => out[k][2] \notin {"call", "callq"}
           /\ Len(SelectSeq(out, LAMBDA l : l = <<".extern", "handleTrap">>)) = 1
           /\ Len(SelectSeq(out, LAMBDA l : l = <<"handleTrap", ":">>)) = 0

C5_Witness ==
    /\ Done
    /\ Len(SelectSeq(out, IsJmp)) = 256
    /\ out[2] = <<".extern", "handleTrap">>
    /\ StubSeq(out)[1].body[3] = <<"\t", "jmp", "handleTrap">>

(***************************************************************************)
(* A trap taken on vector v: the CPU pushes its frame, and an error code   *)
(* for the vectors that have one, and enters the stub trap_table names at  *)
(* position v; the stub runs up to its jmp.  A stack word is a pair        *)
(* <<origin, value>>; the stack grows to the right.                        *)
(***************************************************************************)
ErrorCodes == {0, 6}

CpuFrame == << <<"ss", 0>>, <<"rsp", 0>>, <<"rflags", 0>>, <<"cs", 0>>,
               <<"rip", 0>> >>

CpuEntry(v, e) ==
    CpuFrame \o (IF v \in HwErrorCodeVectors THEN << <<"errcode", e>> >>
                                             ELSE <<>>)

(* The number an immediate operand denotes; -1 when it is none of $0..$255. *)
ImmValue(op) ==
    IF \E n \in Vectors : Imm(n) = op
    THEN CHOOSE n \in Vectors : Imm(n) = op
    ELSE -1

RECURSIVE Exec(_, _, _)
Exec(body, k, stack) ==
    IF k > Len(body) THEN [at |-> "fell through", stack |-> stack]
    ELSE IF IsPush(body[k])
         THEN Exec(body, k + 1, Append(stack, <<"imm", ImmValue(body[k][3])>>))
    ELSE IF IsJmp(body[k]) THEN [at |-> body[k][3], stack |-> stack]
    ELSE [at |-> "fault", stack |-> stack]

(***************************************************************************)
(* C6: uniform frame at dispatch.  For a trap on any vector v in 0..255,   *)
(* when control reaches handleTrap the stack holds exactly two words above *)
(* the CPU's trap frame: on top v, below it the error-code slot (the CPU's *)
(* code, or the 0 the stub pushed); so the padding push precedes the index *)
(* push.                                                                   *)
(***************************************************************************)
C6_UniformFrameAtDispatch ==
    Done =>
        LET S == StubSeq(out)
            T == TableSeq(out)
        IN \A v \in Vectors :
              /\ v + 1 <= Len(T)
              /\ \E s \in 1..Len(S) : S[s].label = T[v + 1]
              /\ \A s \in 1..Len(S) : S[s].label = T[v + 1] =>
                    \A e \in ErrorCodes :
                       LET r == Exec(S[s].body, 1, CpuEntry(v, e))
                       IN /\ r.at = "handleTrap"
                          /\ r.stack = CpuFrame \o
                               << (IF v \in HwErrorCodeVectors
                                   THEN <<"errcode", e>> ELSE <<"imm", 0>>),
                                  <<"imm", v>> >>

C6_Witness ==
    /\ Done
    /\ \E s \in 1..Len(StubSeq(out)) :
          /\ StubSeq(out)[s].label = TableSeq(out)[15]
          /\ Exec(StubSeq(out)[s].body, 1, CpuEntry(14, 6)).stack =
                CpuFrame \o << <<"errcode", 6>>, <<"imm", 14>> >>
    /\ \E s \in 1..Len(StubSeq(out)) :
          /\ StubSeq(out)[s].label = TableSeq(out)[129]
          /\ Exec(StubSeq(out)[s].body, 1, CpuEntry(128, 6)).stack =
                CpuFrame \o << <<"imm", 0>>, <<"imm", 128>> >>

(***************************************************************************)
(* C7: every vector is emitted by the identical template: two stubs whose  *)
(* vectors have the same error-code flag differ only in the label and the  *)
(* pushed index, with the same mnemonics for the pushes and the jmp.       *)
(***************************************************************************)
C7_IdenticalTemplate ==
    Done =>
        LET S == StubSeq(out)
            F == AsTuple([s \in 1..Len(S) |->
                    \E n \in Vectors : PushesIndex(S[s].body, n) /\ Classified(n)])
        IN \A a, b \in 1..Len(S) :
              F[a] = F[b] =>
                 /\ Mnemonics(S[a].body) = Mnemonics(S[b].body)
                 /\ Len(S[a].body) = Len(S[b].body)
                 /\ \A m \in 1..Len(S[a].body) :
                       \/ S[a].body[m] = S[b].body[m]
                       \/ (IsPush(S[a].body[m]) /\ m = Len(S[a].body) - 1)

(***************************************************************************)
(* C8: two runs of the generator yield the same output, line for line,     *)
(* whatever each run is started with: at every moment of a later run what  *)
(* it has written is the beginning of what the run before wrote, and when  *)
(* it is done the two outputs are equal.                                   *)
(***************************************************************************)
C8_RunsAgree ==
    run > 1 =>
        /\ Len(out) <= Len(prev)
        /\ \A k \in 1..Len(out) : out[k] = prev[k]
        /\ Done => out = prev

(* A second process, started in another environment than the first, has   *)
(* written every stub that is read from TRAPS and the first synthesized    *)
(* one, and the first process had written the whole text.                  *)
C8_Witness ==
    /\ run = 2
    /\ env = "altered"
    /\ prev_env = "plain"
    /\ pc = "L47"
    /\ it = FirstVector + 1
    /\ Len(prev) = 1787
    /\ Len(out) = 190
    /\ out[Len(out) - 2] = <<"\t", "push", "$32">>
    /\ prev[Len(prev)] = <<"\t", ".quad", "vector255">>

(***************************************************************************)
(* C9: the classification table densely covers vectors 0..31: TRAPS has    *)
(* exactly 32 entries, each a (label, flag) pair with a non-empty label,   *)
(* the reserved vectors 15, 22-27 and 31 carrying placeholder labels at    *)
(* their own positions; so the position of an entry is its vector number   *)
(* (the s-th stub emitted pushes s - 1) and the first synthesized vector,  *)
(* 32, follows the last table entry with no gap or overlap.                *)
(***************************************************************************)
ReservedVectors == {15, 22, 23, 24, 25, 26, 27, 31}

C9_DenseTable ==
    /\ Len(TRAPS) = 32
    /\ Len(TRAPS) = FirstVector
    /\ \A e \in 1..Len(TRAPS) :
          /\ Len(TRAPS[e]) = 2
          /\ TRAPS[e][1] # ""
          /\ TRAPS[e][2] \in BOOLEAN
    /\ \A n \in ReservedVectors :
          n + 1 <= Len(TRAPS) /\ TRAPS[n + 1][1] = "reserved" \o Dec(n)
    /\ Done =>
         LET S == StubSeq(out)
         IN /\ Len(S) = 256
            /\ \A s \in 1..Len(S) : PushesIndex(S[s].body, s - 1)
            /\ \A e \in 1..Len(TRAPS) :
                  e <= Len(S) /\ S[e].label = TRAPS[e][1]
            /\ S[Len(TRAPS) + 1].label = VectorName(32)

C9_Witness ==
    /\ Done
    /\ Len(TRAPS) = 32
    /\ StubSeq(out)[16].label = "reserved15"
    /\ PushesIndex(StubSeq(out)[16].body, 15)
    /\ PushesIndex(StubSeq(out)[32].body, 31)
    /\ PushesIndex(StubSeq(out)[33].body, 32)

(***************************************************************************)
(* C10: the generator is one terminating linear pass with a fixed order.   *)
(* What has been written so far is always: the .text header and the extern *)
(* declaration, then stubs in strictly increasing index order from 0 (only *)
(* the last possibly unfinished), then, only once all 256 stubs are there, *)
(* the .data header and the trap_table label, then table entries naming    *)
(* the stubs in index order; nothing is emitted twice.  Lines are only     *)
(* ever appended, TRAPS never changes, main() reaches its end with 256     *)
(* stubs and 256 entries written, and writes nothing after that.           *)
(***************************************************************************)
EmissionOrder ==
    LET S == StubSeq(out)
        T == TableSeq(out)
        d == DataStart(out)
    IN /\ Len(out) >= 1 => out[1] = <<".section", ".text">>
       /\ Len(out) >= 2 => out[2] = <<".extern", "handleTrap">>
       /\ Len(S) <= 256
       /\ \A s \in 1..Len(S) :
             /\ s < Len(S) => Finished(S[s].body)
             /\ Finished(S[s].body) => PushesIndex(S[s].body, s - 1)
       /\ Cardinality({S[s].label : s \in 1..Len(S)}) = Len(S)
       /\ d <= Len(out) =>
             /\ Len(S) = 256
             /\ Finished(S[256].body)
             /\ Len(out) >= d + 1 => out[d + 1] = <<".global", "trap_table">>
             /\ Len(out) >= d + 2 => out[d + 2] = <<"trap_table", ":">>
             /\ Len(out) <= d + 2 + Len(T)
       /\ Len(T) <= Len(S)
       /\ \A q \in 1..Len(T) : T[q] = S[q].label
       /\ Len(SelectSeq(out, IsQuad)) = Len(T)
       /\ Done => Len(S) = 256 /\ Len(T) = 256

AppendOnly ==
    run' = run =>
        /\ Len(out') >= Len(out)
        /\ SubSeq(out', 1, Len(out)) = out

C10_LinearPass ==
    /\ []EmissionOrder
    /\ [][AppendOnly]_vars
    /\ [][TRAPS' = TRAPS]_vars
    /\ [][Done => run' = run + 1 /\ out' = <<>>]_vars
    /\ (pc = "L37") ~> Done

C10_Witness ==
    /\ Done
    /\ run = 1
    /\ Len(StubSeq(out)) = 256
    /\ Len(TableSeq(out)) = 256
    /\ out[Len(out)] = <<"\t", ".quad", "vector255">>
    /\ out[DataStart(out) - 2] = <<"\t", "jmp", "handleTrap">>
    /\ TRAPS = TRAPS_TABLE
====
